---- MODULE Spec2Model ----
(***************************************************************************)
(* A model of the portfolio optimiser: monte_carlo.py (compute_returns,    *)
(* infer_periods_per_year, simulate_portfolios), utils.py                  *)
(* (parse_ticker_from_filename, load_price_file, align_price_series), the  *)
(* pipeline of app.py's main (file loading, horizon scaling,               *)
(* risk-tolerance filter, goal selection, CSV and PDF output) and the      *)
(* asset list of pdf_report.py's summary page.                             *)
(*                                                                         *)
(* Spec is the whole pipeline on loaded series; SimSpec, SelectSpec,       *)
(* UploadSpec and FreqSpec run simulate_portfolios, the selection, the     *)
(* file loading and infer_periods_per_year on inputs of their own.         *)
(*                                                                         *)
(* Floating-point numbers are modelled as fixed-point values with FScale   *)
(* units per 1.0, together with the IEEE specials NaN, +Inf and -Inf, so   *)
(* that a division by zero or a square root of a negative number gives    *)
(* what numpy and pandas give, not an error.                               *)
(***************************************************************************)
EXTENDS Integers, Sequences, FiniteSets, TLC

\* ------------------------------------------------------------------ bounds

\* Fixed-point units per 1.0.
FScale == 1000
\* The simplex grid of the sampler: weights are multiples of 1/WeightSteps.
WeightSteps == 4
\* Dates are day numbers 1..MaxDate.
MaxDate == 4
\* The number of portfolios asked for is at most MaxN.
MaxN == 3
\* Seeds are 0..MaxSeed; the operating system's entropy is 0..MaxEntropy.
MaxSeed == 2
MaxEntropy == 2
\* At most MaxFiles files are uploaded at once.
MaxFiles == 11
\* The indexes given to infer_periods_per_year directly have at most
\* MaxIndexLen dates and start on one of the first MaxStart days or months.
MaxIndexLen == 5
MaxStart == 6

\* ------------------------------------------------------- floating point

Num(v) == [k |-> "num", v |-> v]
NaN == [k |-> "nan", v |-> 0]
PosInf == [k |-> "inf", v |-> 1]
NegInf == [k |-> "inf", v |-> -1]
Zero == Num(0)
One == Num(FScale)
FromInt(n) == Num(n * FScale)

IsNum(x) == x.k = "num"
IsNaN(x) == x.k = "nan"
IsInf(x) == x.k = "inf"
Sign(x) == IF x.v > 0 THEN 1 ELSE IF x.v < 0 THEN -1 ELSE 0
Abs(n) == IF n < 0 THEN -n ELSE n
InfOf(s) == IF s > 0 THEN PosInf ELSE NegInf

\* Division of integers rounded toward zero (the divisor is not 0).
TruncDiv(a, b) == LET q == Abs(a) \div Abs(b)
                  IN  IF (a < 0) = (b < 0) THEN q ELSE -q

FNeg(a) == IF IsNaN(a) THEN NaN ELSE [k |-> a.k, v |-> -a.v]

FAdd(a, b) ==
    IF IsNaN(a) \/ IsNaN(b) THEN NaN
    ELSE IF IsInf(a) /\ IsInf(b) THEN (IF a.v = b.v THEN a ELSE NaN)
    ELSE IF IsInf(a) THEN a
    ELSE IF IsInf(b) THEN b
    ELSE Num(a.v + b.v)

FSub(a, b) == FAdd(a, FNeg(b))

FMul(a, b) ==
    IF IsNaN(a) \/ IsNaN(b) THEN NaN
    ELSE IF IsInf(a) \/ IsInf(b)
         THEN (IF Sign(a) = 0 \/ Sign(b) = 0 THEN NaN ELSE InfOf(Sign(a) * Sign(b)))
    ELSE Num(TruncDiv(a.v * b.v, FScale))

\* IEEE division: x/0 is +Inf or -Inf, 0/0 is NaN; nothing is raised.
FDiv(a, b) ==
    IF IsNaN(a) \/ IsNaN(b) THEN NaN
    ELSE IF IsInf(a) /\ IsInf(b) THEN NaN
    ELSE IF IsInf(a) THEN InfOf(IF Sign(b) < 0 THEN -Sign(a) ELSE Sign(a))
    ELSE IF IsInf(b) THEN Zero
    ELSE IF b.v = 0 THEN (IF a.v = 0 THEN NaN ELSE InfOf(Sign(a)))
    ELSE Num(TruncDiv(a.v * FScale, b.v))

RECURSIVE SqrtSearch(_, _, _)
SqrtSearch(x, lo, hi) ==
    IF lo >= hi THEN lo
    ELSE LET mid == (lo + hi + 1) \div 2
         IN  IF mid * mid <= x THEN SqrtSearch(x, mid, hi)
             ELSE SqrtSearch(x, lo, mid - 1)

\* The integer square root, rounded down.
ISqrt(x) == SqrtSearch(x, 0, 46340)

\* np.sqrt: NaN for a negative number (numpy warns, it does not raise).
FSqrt(a) ==
    IF IsNaN(a) THEN NaN
    ELSE IF IsInf(a) THEN (IF a.v > 0 THEN PosInf ELSE NaN)
    ELSE IF a.v < 0 THEN NaN
    ELSE Num(ISqrt(a.v * FScale))

\* Comparisons: every comparison with NaN is false.
FLt(a, b) ==
    IF IsNaN(a) \/ IsNaN(b) THEN FALSE
    ELSE IF IsInf(a) THEN a.v < 0 /\ ~(IsInf(b) /\ b.v < 0)
    ELSE IF IsInf(b) THEN b.v > 0
    ELSE a.v < b.v

FEq(a, b) == ~IsNaN(a) /\ ~IsNaN(b) /\ a = b
FLe(a, b) == FLt(a, b) \/ FEq(a, b)
FGt(a, b) == FLt(b, a)

\* x ** h for an integer h >= 0, by repeated multiplication.
RECURSIVE FPow(_, _)
FPow(x, h) == IF h = 0 THEN One ELSE FMul(FPow(x, h - 1), x)

FAbs(a) == IF IsNaN(a) THEN NaN ELSE [k |-> a.k, v |-> Abs(a.v)]

\* The sum of a sequence of floats, left to right.
RECURSIVE FSum(_)
FSum(s) == IF s = <<>> THEN Zero ELSE FAdd(FSum(SubSeq(s, 1, Len(s) - 1)), s[Len(s)])

\* ---------------------------------------------------------- data frames

\* A DataFrame: its column labels, its index labels and its cells
\* (data[i][j] is the cell of row i and column j).
DataFrame(columns, index, data) == [columns |-> columns, index |-> index, data |-> data]
EmptyFrame == DataFrame(<<>>, <<>>, <<>>)
NRows(df) == Len(df.index)
NCols(df) == Len(df.columns)

\* The position of the first column labelled c.
ColPos(df, c) == CHOOSE j \in 1..NCols(df) :
                    df.columns[j] = c /\ \A m \in 1..(j - 1) : df.columns[m] # c
\* df[c]: the column as a sequence, in row order.
Column(df, c) == [i \in 1..NRows(df) |-> df.data[i][ColPos(df, c)]]
\* The position of the row labelled l (labels are unique).
RowPos(df, l) == CHOOSE i \in 1..NRows(df) : df.index[i] = l
HasLabel(df, l) == \E i \in 1..NRows(df) : df.index[i] = l
\* df.loc[l, c]
Loc(df, l, c) == df.data[RowPos(df, l)][ColPos(df, c)]
\* df[c] = values: an existing column is overwritten, a new one is appended.
SetColumn(df, c, values) ==
    IF \E j \in 1..NCols(df) : df.columns[j] = c
    THEN DataFrame(df.columns, df.index,
             [i \in 1..NRows(df) |->
                 [j \in 1..NCols(df) |->
                     IF j = ColPos(df, c) THEN values[i] ELSE df.data[i][j]]])
    ELSE DataFrame(Append(df.columns, c), df.index,
             [i \in 1..NRows(df) |-> Append(df.data[i], values[i])])

\* The elements of a finite set of integers, in ascending order.
RECURSIVE Ascending(_)
Ascending(S) ==
    IF S = {} THEN <<>>
    ELSE LET m == CHOOSE x \in S : \A y \in S : x <= y
         IN  <<m>> \o Ascending(S \ {m})

\* df[mask]: the rows whose position is in keep, in order, labels kept.
FilterRows(df, keep) ==
    LET pos == Ascending(keep)
    IN  DataFrame(df.columns,
                  [m \in 1..Len(pos) |-> df.index[pos[m]]],
                  [m \in 1..Len(pos) |-> df.data[pos[m]]])

\* ------------------------------------------------------------ price data

AllTickers == <<"A", "B", "C">>
Patterns == {"flat", "rising", "falling", "zigzag"}

\* The closing price of an asset that follows pattern p, on day d.
PatternPrice(p, d) ==
    CASE p = "flat"    -> 1000
      [] p = "rising"  -> 1000 + 2 * d
      [] p = "falling" -> 1000 - 2 * d
      [] p = "zigzag"  -> 1000 + 10 * (d % 2)

\* The markets considered: the price pattern of each ticker.
Scenarios == { <<"zigzag", "flat", "rising">>,
               <<"flat", "flat", "flat">>,
               <<"rising", "flat", "falling">> }

\* The periods of days a file may cover.
DateRanges == { r \in (1..MaxDate) \X (1..MaxDate) : r[1] <= r[2] }

\* A loaded price series (what load_price_file returns): the ticker as its
\* name, and the rows (date, price) in the order of the file.
Series(name, pattern, lo, hi) ==
    [name |-> name,
     index |-> [m \in 1..(hi - lo + 1) |-> lo + m - 1],
     values |-> [m \in 1..(hi - lo + 1) |-> FromInt(PatternPrice(pattern, lo + m - 1))]]

SeriesHas(s, d) == \E m \in 1..Len(s.index) : s.index[m] = d
SeriesAt(s, d) == s.values[CHOOSE m \in 1..Len(s.index) : s.index[m] = d]

\* pd.concat(series_list, axis=1, join='inner'): the dates every series has,
\* in the order of the first series; one column per series.
align_price_series(series_list) ==
    IF series_list = <<>> THEN EmptyFrame
    ELSE LET first == series_list[1]
             common == {m \in 1..Len(first.index) :
                           \A q \in 1..Len(series_list) :
                               SeriesHas(series_list[q], first.index[m])}
             pos == Ascending(common)
         IN  DataFrame([q \in 1..Len(series_list) |-> series_list[q].name],
                       [m \in 1..Len(pos) |-> first.index[pos[m]]],
                       [m \in 1..Len(pos) |->
                           [q \in 1..Len(series_list) |->
                               SeriesAt(series_list[q], first.index[pos[m]])]])

\* DataFrame.empty: no rows or no columns.
IsEmptyFrame(df) == NRows(df) = 0 \/ NCols(df) = 0

\* prices.pct_change().dropna(): row i is price[i] / price[i-1] - 1; the first
\* row has no previous one (NaN) and is dropped, as is any row with a NaN.
compute_returns(prices) ==
    LET Change(i, j) == IF i = 1 THEN NaN
                        ELSE FSub(FDiv(prices.data[i][j], prices.data[i - 1][j]), One)
        complete == {i \in 1..NRows(prices) :
                        \A j \in 1..NCols(prices) : ~IsNaN(Change(i, j))}
        pos == Ascending(complete)
    IN  DataFrame(prices.columns,
                  [m \in 1..Len(pos) |-> prices.index[pos[m]]],
                  [m \in 1..Len(pos) |-> [j \in 1..NCols(prices) |-> Change(pos[m], j)]])

\* The sum of a sequence of integers.
RECURSIVE IntSum(_)
IntSum(s) == IF s = <<>> THEN 0 ELSE IntSum(SubSeq(s, 1, Len(s) - 1)) + s[Len(s)]

\* The calendar: day number 1 is Monday 2024-01-01, and the days of the model
\* lie in the year 2024.
DaysInMonth == <<31, 29, 31, 30, 31, 30, 31, 31, 30, 31, 30, 31>>
DaysInYear == 366
\* The day number of the first day of month m.
MonthStart(m) == 1 + IntSum(SubSeq(DaysInMonth, 1, m - 1))
MonthOf(d) == CHOOSE m \in 1..12 : MonthStart(m) <= d /\ d < MonthStart(m) + DaysInMonth[m]
DayOfMonth(d) == d - MonthStart(MonthOf(d)) + 1
\* 0 is Monday, 6 is Sunday.
Weekday(d) == (d - 1) % 7
WeekdayName(wd) ==
    <<<<"M", "O", "N">>, <<"T", "U", "E">>, <<"W", "E", "D">>, <<"T", "H", "U">>,
      <<"F", "R", "I">>, <<"S", "A", "T">>, <<"S", "U", "N">>>>[wd + 1]
MonthName(m) ==
    <<<<"J", "A", "N">>, <<"F", "E", "B">>, <<"M", "A", "R">>, <<"A", "P", "R">>,
      <<"M", "A", "Y">>, <<"J", "U", "N">>, <<"J", "U", "L">>, <<"A", "U", "G">>,
      <<"S", "E", "P">>, <<"O", "C", "T">>, <<"N", "O", "V">>, <<"D", "E", "C">>>>[m]

\* The decimal digits of an integer, as characters.
RECURSIVE NatChars(_)
NatChars(n) ==
    LET digit == <<"0", "1", "2", "3", "4", "5", "6", "7", "8", "9">>[(n % 10) + 1]
    IN  IF n < 10 THEN <<digit>> ELSE Append(NatChars(n \div 10), digit)
IntChars(n) == IF n < 0 THEN <<"-">> \o NatChars(-n) ELSE NatChars(n)

\* pandas' _maybe_add_count: the alias, prefixed by the count when it is not 1.
MaybeAddCount(base, count) == IF count = 1 THEN base ELSE IntChars(count) \o base

\* pandas' month_position_check: "ce" when every date is the last day of its
\* month, "be" when every date is the last day or a Friday among the last
\* three days, "cs" when every date is the first day, "bs" when every date is
\* the first day or a Monday among the first three days; "" otherwise.
month_position_check(index) ==
    LET dim(d) == DaysInMonth[MonthOf(d)]
        all(P(_)) == \A m \in 1..Len(index) : P(index[m])
        ce(d) == DayOfMonth(d) = dim(d)
        be(d) == ce(d) \/ (dim(d) - DayOfMonth(d) < 3 /\ Weekday(d) = 4)
        cs(d) == DayOfMonth(d) = 1
        bs(d) == cs(d) \/ (DayOfMonth(d) <= 3 /\ Weekday(d) = 0)
    IN  IF all(ce) THEN "ce" ELSE IF all(be) THEN "be"
        ELSE IF all(cs) THEN "cs" ELSE IF all(bs) THEN "bs" ELSE ""

\* pandas' _is_business_daily: the steps are of 1 and 3 days, every step of 3
\* days ends on a Monday and every step of 1 day on Tuesday..Friday.
IsBusinessDaily(index) ==
    /\ {index[m] - index[m - 1] : m \in 2..Len(index)} = {1, 3}
    /\ \A m \in 2..Len(index) :
          LET shift == index[m] - index[m - 1]
              wd == Weekday(index[m])
          IN  (wd = 0 /\ shift = 3) \/ (wd > 0 /\ wd <= 4 /\ shift = 1)

\* pd.infer_freq on day numbers (every timestamp is a midnight); an alias is
\* the sequence of its characters and <<>> stands for None. Fewer than 3
\* dates make pandas raise, which infer_periods_per_year turns into None; an
\* index that is not monotonic or has a date twice gives None. The rules are
\* tried in pandas' order: quarterly, monthly, a single step (weekly when it
\* is a multiple of 7 days, else daily), business daily, week of month. (The
\* annual rule needs the dates of several years in one month.)
infer_freq(index) ==
    LET n == Len(index)
        deltas == {index[m] - index[m - 1] : m \in 2..n}
        mdiffs == {MonthOf(index[m]) - MonthOf(index[m - 1]) : m \in 2..n}
        first(S) == CHOOSE x \in S : \A y \in S : x <= y
        pos_check == month_position_check(index)
        weekdays == {Weekday(index[m]) : m \in 1..n}
        week_of_months == {(DayOfMonth(index[m]) - 1) \div 7 : m \in 1..n} \cap 0..3
    IN  IF n < 3 THEN <<>>
        ELSE IF ~((\A d \in deltas : d > 0) \/ (\A d \in deltas : d < 0)) THEN <<>>
        ELSE IF Cardinality(mdiffs) = 1 /\ first(mdiffs) % 3 = 0 /\ pos_check # ""
        THEN MaybeAddCount((CASE pos_check = "cs" -> <<"Q", "S">>
                              [] pos_check = "bs" -> <<"B", "Q", "S">>
                              [] pos_check = "ce" -> <<"Q", "E">>
                              [] pos_check = "be" -> <<"B", "Q", "E">>)
                               \o <<"-">> \o MonthName(((MonthOf(index[1]) - 1) % 3) + 10),
                           first(mdiffs) \div 3)
        ELSE IF Cardinality(mdiffs) = 1 /\ pos_check # ""
        THEN MaybeAddCount(CASE pos_check = "cs" -> <<"M", "S">>
                             [] pos_check = "bs" -> <<"B", "M", "S">>
                             [] pos_check = "ce" -> <<"M", "E">>
                             [] pos_check = "be" -> <<"B", "M", "E">>,
                           first(mdiffs))
        ELSE IF Cardinality(deltas) = 1 /\ first(deltas) % 7 = 0
        THEN MaybeAddCount(<<"W", "-">> \o WeekdayName(Weekday(index[1])),
                           first(deltas) \div 7)
        ELSE IF Cardinality(deltas) = 1 THEN MaybeAddCount(<<"D">>, first(deltas))
        ELSE IF IsBusinessDaily(index) THEN <<"B">>
        ELSE IF Cardinality(weekdays) = 1 /\ Cardinality(week_of_months) = 1
        THEN <<"W", "O", "M", "-">> \o NatChars(first(week_of_months) + 1)
                 \o WeekdayName(first(weekdays))
        ELSE <<>>

\* str.upper() of one character; the aliases of day-based frequencies have
\* capital letters only, the lower-case ones are those of the finer units.
Upper(ch) ==
    CASE ch = "h" -> "H" [] ch = "m" -> "M" [] ch = "i" -> "I" [] ch = "n" -> "N"
      [] ch = "s" -> "S" [] ch = "u" -> "U" [] OTHER -> ch

\* Lines 58-72.
infer_periods_per_year(index) ==
    LET freq == infer_freq(index)
        upper == [m \in 1..Len(freq) |-> Upper(freq[m])]
    IN  IF freq = <<>> THEN 252
        ELSE IF upper[1] \in {"B", "D"} THEN 252
        ELSE IF upper[1] = "W" THEN 52
        ELSE IF upper[1] = "M" THEN 12
        ELSE 252

\* ------------------------------------------------------ asset statistics

\* returns.mean() * periods, one entry per column; the mean of no rows is NaN.
MeanReturns(returns, periods) ==
    [j \in 1..NCols(returns) |->
        FMul(FDiv(FSum([i \in 1..NRows(returns) |-> returns.data[i][j]]),
                  FromInt(NRows(returns))),
             FromInt(periods))]

\* returns.cov() * periods: the sample covariance (ddof = 1) of columns j and
\* k, annualised; NaN with fewer than 2 rows. The sum of products is kept
\* exact and rounded once: d[i][j] is n times the deviation of row i from the
\* mean of column j.
Covariance(returns, j, k, periods) ==
    LET n == NRows(returns)
        total(c) == IntSum([i \in 1..n |-> returns.data[i][c].v])
        d(i, c) == n * returns.data[i][c].v - total(c)
    IN  IF n < 2 THEN NaN
        ELSE IF \E i \in 1..n : ~IsNum(returns.data[i][j]) \/ ~IsNum(returns.data[i][k])
             THEN NaN
        ELSE Num(TruncDiv(IntSum([i \in 1..n |-> d(i, j) * d(i, k)]) * periods,
                          n * n * (n - 1) * FScale))

CovMatrix(returns, periods) ==
    [j \in 1..NCols(returns) |->
        [k \in 1..NCols(returns) |-> Covariance(returns, j, k, periods)]]

\* np.dot of two vectors of the same length.
Dot(a, b) == FSum([j \in 1..Len(a) |-> FMul(a[j], b[j])])
\* np.dot of a matrix and a vector.
MatVec(m, v) == [j \in 1..Len(m) |-> Dot(m[j], v)]

\* ------------------------------------------------------- random numbers

\* An optional integer: <<>> is None, <<s>> the integer s.
None == <<>>
Some(s) == <<s>>

\* The bit generator's states are 0..15; it steps as a linear congruential
\* generator of full period.
RngStep(s) == (5 * s + 3) % 16
RngOut(s) == s \div 2

\* np.random.default_rng(random_state): seeded by the integer when there is
\* one, and by fresh entropy of the operating system when it is None.
default_rng_unseeded(random_state, entropy) == (7 * entropy + 1) % 16
default_rng(random_state, entropy) ==
    IF random_state = None THEN (7 * entropy + 1) % 16
    ELSE (7 * random_state[1] + 1) % 16

\* rng.dirichlet(np.ones(k)): a point of the simplex, here by stick breaking
\* on a grid of WeightSteps steps. One variate of the stream is consumed per
\* component; the last component is what remains of the stick, so that the
\* components are >= 0 and sum to 1. Returns the weights and the new state.
RECURSIVE StickBreak(_, _, _)
StickBreak(s, k, rem) ==
    IF k = 0 THEN [steps |-> <<>>, state |-> s]
    ELSE LET s1 == RngStep(s)
             take == IF k = 1 THEN rem ELSE RngOut(s1) % (rem + 1)
             rest == StickBreak(s1, k - 1, rem - take)
         IN  [steps |-> <<take>> \o rest.steps, state |-> rest.state]

dirichlet(s, k) ==
    LET b == StickBreak(s, k, WeightSteps)
        unit == FScale \div WeightSteps
        head == [j \in 1..(k - 1) |-> Num(b.steps[j] * unit)]
    IN  [weights |-> IF k = 0 THEN <<>> ELSE Append(head, FSub(One, FSum(head))),
         state |-> b.state]

\* ---------------------------------------------------------------- state

VARIABLES
    pc,             \* where the program is
    err,            \* the exception that ended it, "" when none
    price_series,   \* app.py: the series loaded from the uploaded files
    tickers,        \* app.py: their names
    prices_df,      \* app.py: the aligned price matrix
    returns,        \* simulate_portfolios: the return matrix it is given
    rf_rate,        \* simulate_portfolios: the risk-free rate it is given
    n_portfolios,   \* simulate_portfolios: the number of trials asked for
    random_state,   \* simulate_portfolios: the seed, or None
    rng,            \* simulate_portfolios: the state of the random stream
    mean_returns,   \* simulate_portfolios: annualised mean returns
    cov_matrix,     \* simulate_portfolios: annualised covariance matrix
    results,        \* simulate_portfolios: the array filled by the loop
    i,              \* simulate_portfolios: the loop index
    draws,          \* history: the weight vectors drawn from the stream, in order
    sim_df,         \* the result table (app.py adds the horizon columns to it)
    optimal_dict,   \* the max-Sharpe and min-volatility reference portfolios
    calls,          \* history: what earlier calls with the same arguments returned
    risk_tolerance, \* app.py: the risk tier chosen in the sidebar
    investment_goal,\* app.py: the goal chosen in the sidebar
    h,              \* app.py: the horizon in years
    candidate_df,   \* app.py: the rows kept by the risk-tolerance filter
    idx,            \* app.py: the label of the selected row
    chosen,         \* app.py: the recommended portfolio
    uploaded_files, \* app.py: the files given to the uploader
    error_files,    \* app.py: the names of the files that could not be loaded
    csv_columns,    \* app.py: the header of the simulation CSV offered for download
    pdf_tickers,    \* pdf_report.py: the assets listed on the report's summary page
    freq_index,     \* infer_periods_per_year: the index it is given
    periods_per_year \* infer_periods_per_year: what it returned, 0 before

vars == <<pc, err, price_series, tickers, prices_df, returns, rf_rate, n_portfolios,
          random_state, rng, mean_returns, cov_matrix, results, i, draws, sim_df,
          optimal_dict, calls, risk_tolerance, investment_goal, h, candidate_df, idx,
          chosen, uploaded_files, error_files, csv_columns, pdf_tickers, freq_index,
          periods_per_year>>

simArgs == <<returns, rf_rate, n_portfolios, random_state>>
simLocals == <<rng, mean_returns, cov_matrix, results, i, draws>>
appInputs == <<price_series, tickers, prices_df>>
appSelection == <<risk_tolerance, investment_goal, h, candidate_df, idx, chosen>>
appUpload == <<uploaded_files, error_files>>
appReport == <<csv_columns, pdf_tickers>>
freqCall == <<freq_index, periods_per_year>>

NoRecord == [weights |-> <<>>]

\* ------------------------------------------------- simulate_portfolios

\* The Sharpe ratio of one trial, guarded against a volatility that is not
\* greater than 0.
sharpe_unguarded(port_return, port_vol, rf) == FDiv(FSub(port_return, rf), port_vol)
sharpe_of(port_return, port_vol, rf) ==
    IF FGt(port_vol, Zero) THEN FDiv(FSub(port_return, rf), port_vol) ELSE Zero

\* One row of the results array: Return, Volatility, Sharpe, weights...
TrialRowMisplaced(weights, mean, cov, rf) ==
    LET port_return == Dot(weights, mean)
        port_variance == Dot(weights, MatVec(cov, weights))
        port_vol == FSqrt(port_variance)
    IN  <<port_return, port_vol>> \o weights \o <<sharpe_of(port_return, port_vol, rf)>>
TrialRow(weights, mean, cov, rf) ==
    LET port_return == Dot(weights, mean)
        port_variance == Dot(weights, MatVec(cov, weights))
        port_vol == FSqrt(port_variance)
    IN  <<port_return, port_vol, sharpe_of(port_return, port_vol, rf)>> \o weights

\* An index search that returns the last of the extreme values.
ArgLast(vals, most) ==
    LET ok == {m \in 1..Len(vals) : ~IsNaN(vals[m])}
        Beats(a, b) == IF most = "max" THEN FGt(a, b) ELSE FLt(a, b)
        best == {m \in ok : \A q \in ok : ~Beats(vals[q], vals[m])}
    IN  IF best = {} THEN 0 ELSE CHOOSE m \in best : \A q \in best : m >= q

\* The position of the first of the largest (most = "max") or smallest
\* (most = "min") values of vals, NaN skipped; 0 when every value is NaN or
\* there is none.
ArgFirst(vals, most) ==
    LET ok == {m \in 1..Len(vals) : ~IsNaN(vals[m])}
        Beats(a, b) == IF most = "max" THEN FGt(a, b) ELSE FLt(a, b)
        best == {m \in ok : \A q \in ok : ~Beats(vals[q], vals[m])}
    IN  IF best = {} THEN 0 ELSE CHOOSE m \in best : \A q \in best : m <= q

\* Series.idxmax() and Series.idxmin() of column c: the position of the row.
ArgMax(df, c) == ArgFirst(Column(df, c), "max")
ArgMin(df, c) == ArgFirst(Column(df, c), "min")

\* {ticker: row[ticker] for ticker in tickers}, as the sequence of its values
\* in the order of the tickers.
extract_portfolio(df, pos, names) == [j \in 1..Len(names) |-> df.data[pos][ColPos(df, names[j])]]

Portfolio(df, pos, names) ==
    [return |-> df.data[pos][ColPos(df, "Return")],
     volatility |-> df.data[pos][ColPos(df, "Volatility")],
     sharpe |-> df.data[pos][ColPos(df, "Sharpe")],
     weights |-> extract_portfolio(df, pos, names)]

\* Lines 105-112: the generator, the statistics and the zeroed array.
\* np.zeros raises ValueError for a negative number of rows.
SimStart ==
    /\ pc = "sim_call"
    /\ \E entropy \in 0..MaxEntropy : rng' = default_rng(random_state, entropy)
    /\ LET periods == infer_periods_per_year(returns.index)
       IN  /\ mean_returns' = MeanReturns(returns, periods)
           /\ cov_matrix' = CovMatrix(returns, periods)
    /\ IF n_portfolios < 0
       THEN /\ pc' = "sim_raised"
            /\ err' = "ValueError"
            /\ results' = <<>>
       ELSE /\ pc' = "sim_loop"
            /\ err' = ""
            /\ results' = [r \in 1..n_portfolios |->
                              [c \in 1..(3 + NCols(returns)) |-> Zero]]
    /\ i' = 0
    /\ draws' = <<>>
    /\ UNCHANGED <<appUpload, appReport, freqCall, simArgs, appInputs, appSelection, sim_df,
                   optimal_dict, calls>>

\* A loop that writes every trial into the first row.
TrialIndexStuck(k) == 1

\* Line 123: results[i, ...]; row i of the array is position i + 1 here.
TrialIndex(k) == k + 1

\* Lines 113-126: trial i draws one weight vector and fills row i.
SimTrial ==
    /\ pc = "sim_loop"
    /\ i < n_portfolios
    /\ LET d == dirichlet(rng, NCols(returns))
       IN  /\ rng' = d.state
           /\ draws' = Append(draws, d.weights)
           /\ results' = [results EXCEPT ![TrialIndex(i)] =
                             TrialRow(d.weights, mean_returns, cov_matrix, rf_rate)]
    /\ i' = i + 1
    /\ UNCHANGED <<appUpload, appReport, freqCall, pc, err, simArgs, mean_returns, cov_matrix,
                   appInputs, appSelection,
                   sim_df, optimal_dict, calls>>

\* Lines 129-153: the table and the two reference portfolios. idxmax and
\* idxmin raise ValueError on an empty column; on a column of NaN only they
\* raise ValueError or return NaN (it depends on the pandas version), and
\* df.loc[NaN, ...] then raises KeyError.
SimFinish ==
    /\ pc = "sim_loop"
    /\ i >= n_portfolios
    /\ LET df == DataFrame(<<"Return", "Volatility", "Sharpe">> \o returns.columns,
                           [r \in 1..n_portfolios |-> r - 1],
                           results)
           max_sharpe == ArgMax(df, "Sharpe")
           min_vol == ArgMin(df, "Volatility")
       IN  IF NRows(df) = 0
           THEN /\ pc' = "sim_raised"
                /\ err' = "ValueError"
                /\ UNCHANGED <<sim_df, optimal_dict>>
           ELSE IF max_sharpe = 0 \/ min_vol = 0
           THEN /\ pc' = "sim_raised"
                /\ err' \in {"ValueError", "KeyError"}
                /\ UNCHANGED <<sim_df, optimal_dict>>
           ELSE /\ pc' = "sim_returned"
                /\ err' = ""
                /\ sim_df' = df
                /\ optimal_dict' =
                       [max_sharpe |-> Portfolio(df, max_sharpe, returns.columns),
                        min_vol |-> Portfolio(df, min_vol, returns.columns)]
    /\ UNCHANGED <<appUpload, appReport, freqCall, simArgs, simLocals, appInputs,
                   appSelection, calls>>

\* A second, independent call with the same arguments: what the first call
\* returned is kept for comparison.
SimAgain ==
    /\ pc = "sim_returned"
    /\ calls = <<>>
    /\ calls' = <<[sim_df |-> sim_df, optimal_dict |-> optimal_dict, rng |-> rng]>>
    /\ pc' = "sim_call"
    /\ UNCHANGED <<appUpload, appReport, freqCall, err, simArgs, simLocals, appInputs,
                   appSelection, sim_df, optimal_dict>>

SimNext == SimStart \/ SimTrial \/ SimFinish

\* The price matrix of the first k tickers of a scenario on the days lo..hi.
PriceFrame(scn, k, lo, hi) ==
    align_price_series([q \in 1..k |-> Series(AllTickers[q], scn[q], lo, hi)])

\* The return matrices simulate_portfolios is called with directly.
ReturnFrames ==
    { compute_returns(PriceFrame(scn, k, r[1], r[2])) :
          scn \in Scenarios, k \in 1..Len(AllTickers), r \in DateRanges }

RfInputs == {0, 4}
\* rf_input / 100.0, of a rate given in percent.
RfRate(rf_input) == FDiv(FromInt(rf_input), FromInt(100))

SimInit ==
    /\ pc = "sim_call"
    /\ err = ""
    /\ price_series = <<>>
    /\ tickers = <<>>
    /\ prices_df = EmptyFrame
    /\ returns \in ReturnFrames
    /\ rf_rate \in {RfRate(r) : r \in RfInputs}
    /\ n_portfolios \in (-1)..MaxN
    /\ random_state \in {None} \cup {Some(s) : s \in 0..MaxSeed}
    /\ rng = 0
    /\ mean_returns = <<>>
    /\ cov_matrix = <<>>
    /\ results = <<>>
    /\ i = 0
    /\ draws = <<>>
    /\ sim_df = EmptyFrame
    /\ optimal_dict = [max_sharpe |-> NoRecord, min_vol |-> NoRecord]
    /\ calls = <<>>
    /\ risk_tolerance = ""
    /\ investment_goal = ""
    /\ h = 0
    /\ candidate_df = EmptyFrame
    /\ idx = None
    /\ chosen = NoRecord
    /\ uploaded_files = <<>>
    /\ error_files = <<>>
    /\ csv_columns = <<>>
    /\ pdf_tickers = <<>>
    /\ freq_index = <<>>
    /\ periods_per_year = 0

SimSpecNext == SimNext \/ SimAgain
SimSpec == SimInit /\ [][SimSpecNext]_vars

\* --------------------------------------------------------- app.py: main

\* Line 95: between 3 and 10 tickers.
MinTickers == 3
MaxTickers == 10

\* Lines 94-103: the number of series is checked, the series are aligned and
\* an empty price matrix stops the run.
AlignPrices ==
    /\ pc = "main"
    /\ IF price_series = <<>>
       THEN /\ pc' = "no_files"
            /\ UNCHANGED prices_df
       ELSE IF ~(MinTickers <= Len(price_series) /\ Len(price_series) <= MaxTickers)
       THEN /\ pc' = "warned"
            /\ UNCHANGED prices_df
       ELSE /\ prices_df' = align_price_series(price_series)
            /\ pc' = IF IsEmptyFrame(prices_df') THEN "no_overlap" ELSE "ready"
    /\ UNCHANGED <<appUpload, appReport, freqCall, err, price_series, tickers, simArgs,
                   simLocals, sim_df, optimal_dict,
                   calls, appSelection>>

\* int(seed) if seed else None: the seed 0 means no seed.
SeedOf(seed) == IF seed = 0 THEN None ELSE Some(seed)

\* Lines 105-113: the button is pressed; the returns are computed and
\* simulate_portfolios is called with the sidebar's settings.
RunSimulation ==
    /\ pc = "ready"
    /\ returns' = compute_returns(prices_df)
    /\ \E rf_input \in RfInputs : rf_rate' = RfRate(rf_input)
    /\ n_portfolios' \in 1..MaxN
    /\ \E seed \in 0..MaxSeed : random_state' = SeedOf(seed)
    /\ pc' = "sim_call"
    /\ UNCHANGED <<appUpload, appReport, freqCall, err, appInputs, simLocals, sim_df,
                   optimal_dict, calls, appSelection>>

\* The horizon labels of the sidebar, as sequences of characters.
Horizons == { <<"1", "Y">>, <<"3", "Y">>, <<"5", "Y">>, <<"1", "0", "+", "Y">> }

\* str.rstrip(ch)
RECURSIVE RStrip(_, _)
RStrip(str, ch) ==
    IF str # <<>> /\ str[Len(str)] = ch THEN RStrip(SubSeq(str, 1, Len(str) - 1), ch)
    ELSE str

DigitValue(ch) ==
    CASE ch = "0" -> 0 [] ch = "1" -> 1 [] ch = "2" -> 2 [] ch = "3" -> 3 [] ch = "4" -> 4
      [] ch = "5" -> 5 [] ch = "6" -> 6 [] ch = "7" -> 7 [] ch = "8" -> 8 [] ch = "9" -> 9
      [] OTHER -> -1

RECURSIVE DigitsValue(_)
DigitsValue(str) ==
    IF str = <<>> THEN 0
    ELSE 10 * DigitsValue(SubSeq(str, 1, Len(str) - 1)) + DigitValue(str[Len(str)])

\* int(label.rstrip('Y').rstrip('+')), and 1 when int raises ValueError.
HorizonYears(label) ==
    LET digits == RStrip(RStrip(label, "Y"), "+")
    IN  IF digits = <<>> \/ \E m \in 1..Len(digits) : DigitValue(digits[m]) < 0
        THEN 1
        ELSE DigitsValue(digits)

\* Line 120: (1 + Return) ** h - 1
return_h(ret, years) == FSub(FPow(FAdd(One, ret), years), One)
\* Line 121: Volatility * (h ** 0.5)
volatility_h(vol, years) == FMul(vol, FSqrt(FromInt(years)))
\* Lines 123-125: (Return_h - rf_rate * h) / Volatility_h, a plain division of
\* two columns.
sharpe_h_guarded(ret_h, vol_h, rf, years) ==
    IF FGt(vol_h, Zero) THEN FDiv(FSub(ret_h, FMul(rf, FromInt(years))), vol_h) ELSE Zero
sharpe_h(ret_h, vol_h, rf, years) == FDiv(FSub(ret_h, FMul(rf, FromInt(years))), vol_h)

\* Lines 120-125: the three horizon columns are added to the table.
ScaleToHorizon(df, years, rf) ==
    LET ret == Column(df, "Return")
        vol == Column(df, "Volatility")
        rh == [r \in 1..NRows(df) |-> return_h(ret[r], years)]
        d1 == SetColumn(df, "Return_h", rh)
        vh == [r \in 1..NRows(df) |-> volatility_h(vol[r], years)]
        d2 == SetColumn(d1, "Volatility_h", vh)
        rh2 == Column(d2, "Return_h")
        vh2 == Column(d2, "Volatility_h")
    IN  SetColumn(d2, "Sharpe_h",
                  [r \in 1..NRows(df) |-> sharpe_h(rh2[r], vh2[r], rf, years)])

\* Lines 115-125.
HorizonScaling ==
    /\ pc = "sim_returned"
    /\ \E investment_horizon \in Horizons : h' = HorizonYears(investment_horizon)
    /\ sim_df' = ScaleToHorizon(sim_df, h', rf_rate)
    /\ pc' = "scaled"
    /\ UNCHANGED <<appUpload, appReport, freqCall, err, appInputs, simArgs, simLocals,
                   optimal_dict, calls,
                   risk_tolerance, investment_goal, candidate_df, idx, chosen>>

\* The values of vals that are not NaN, in ascending order.
RECURSIVE SortFloats(_)
SortFloats(vals) ==
    LET ok == {m \in 1..Len(vals) : ~IsNaN(vals[m])}
    IN  IF ok = {} THEN <<>>
        ELSE LET m == CHOOSE x \in ok : \A y \in ok : FLe(vals[x], vals[y])
             IN  <<vals[m]>> \o SortFloats([q \in 1..(Len(vals) - 1) |->
                                               IF q < m THEN vals[q] ELSE vals[q + 1]])

\* Series.quantile(num/den) with pandas' default linear interpolation: NaN is
\* skipped; with m values left the quantile sits at position (m-1)*num/den of
\* the sorted values, between its two neighbours. NaN when no value is left.
Quantile(vals, num, den) ==
    LET sorted == SortFloats(vals)
        m == Len(sorted)
        lo == ((m - 1) * num) \div den
        part == ((m - 1) * num) % den
    IN  IF m = 0 THEN NaN
        ELSE IF part = 0 THEN sorted[lo + 1]
        ELSE FAdd(sorted[lo + 1],
                  FMul(FSub(sorted[lo + 2], sorted[lo + 1]),
                       Num((part * FScale) \div den)))

RiskTiers == {"Low", "Moderate", "High"}
Goals == {"Long-Term Growth", "Capital Preservation", "Balanced", "High Risk-High Return"}

\* A Low tier that keeps the rows at or above the threshold.
CandidatesAbove(df, tier) ==
    IF tier = "Low"
    THEN LET vol == Column(df, "Volatility_h")
             vol_thresh == Quantile(vol, 1, 4)
         IN  FilterRows(df, {r \in 1..NRows(df) : FLe(vol_thresh, vol[r])})
    ELSE df

\* Lines 128-137: the rows the risk tier keeps.
CandidatesStrict(df, tier) ==
    IF tier = "Low"
    THEN LET vol == Column(df, "Volatility_h")
             vol_thresh == Quantile(vol, 1, 4)
         IN  FilterRows(df, {r \in 1..NRows(df) : FLt(vol[r], vol_thresh)})
    ELSE df
Candidates(df, tier) ==
    IF tier = "Low"
    THEN LET vol == Column(df, "Volatility_h")
             vol_thresh == Quantile(vol, 1, 4)
         IN  FilterRows(df, {r \in 1..NRows(df) : FLe(vol[r], vol_thresh)})
    ELSE df

RiskFilter ==
    /\ pc = "scaled"
    /\ risk_tolerance' \in RiskTiers
    /\ candidate_df' = Candidates(sim_df, risk_tolerance')
    /\ pc' = "filtered"
    /\ UNCHANGED <<appUpload, appReport, freqCall, err, appInputs, simArgs, simLocals, sim_df,
                   optimal_dict, calls,
                   investment_goal, h, idx, chosen>>

\* Lines 140-152: the position in the candidates of the row the goal selects,
\* 0 when idxmin or idxmax finds no value.
GoalPosMaxVol(cand, goal) ==
    IF goal = "Capital Preservation" THEN ArgMax(cand, "Volatility_h")
    ELSE IF goal = "High Risk-High Return" THEN ArgMax(cand, "Return_h")
    ELSE IF goal = "Long-Term Growth" THEN ArgMax(cand, "Sharpe_h")
    ELSE LET vol == Column(cand, "Volatility_h")
             med_vol == Quantile(vol, 1, 2)
         IN  ArgFirst([r \in 1..NRows(cand) |-> FAbs(FSub(vol[r], med_vol))], "min")
GoalPos(cand, goal) ==
    IF goal = "Capital Preservation" THEN ArgMin(cand, "Volatility_h")
    ELSE IF goal = "High Risk-High Return" THEN ArgMax(cand, "Return_h")
    ELSE IF goal = "Long-Term Growth" THEN ArgMax(cand, "Sharpe_h")
    ELSE LET vol == Column(cand, "Volatility_h")
             med_vol == Quantile(vol, 1, 2)
         IN  ArgFirst([r \in 1..NRows(cand) |-> FAbs(FSub(vol[r], med_vol))], "min")

\* Lines 154-160: the recommended portfolio, read from the row of sim_df that
\* carries the selected label.
Chosen(df, pos, names) ==
    [weights |-> extract_portfolio(df, pos, names),
     return |-> df.data[pos][ColPos(df, "Return_h")],
     volatility |-> df.data[pos][ColPos(df, "Volatility_h")],
     sharpe |-> df.data[pos][ColPos(df, "Sharpe_h")]]

\* Lines 139-160. idxmin and idxmax raise ValueError on no candidates; on
\* values that are all NaN they raise ValueError or return NaN, and
\* sim_df.loc[NaN] raises KeyError.
GoalSelect ==
    /\ pc = "filtered"
    /\ investment_goal' \in Goals
    /\ LET pos == GoalPos(candidate_df, investment_goal')
       IN  IF NRows(candidate_df) = 0
           THEN /\ pc' = "select_raised"
                /\ err' = "ValueError"
                /\ UNCHANGED <<idx, chosen>>
           ELSE IF pos = 0
           THEN /\ pc' = "select_raised"
                /\ err' \in {"ValueError", "KeyError"}
                /\ UNCHANGED <<idx, chosen>>
           ELSE /\ pc' = "selected"
                /\ err' = ""
                /\ idx' = Some(candidate_df.index[pos])
                /\ chosen' = Chosen(sim_df, RowPos(sim_df, candidate_df.index[pos]), tickers)
    /\ UNCHANGED <<appUpload, appReport, freqCall, appInputs, simArgs, simLocals, sim_df,
                   optimal_dict, calls,
                   risk_tolerance, h, candidate_df>>

\* sim_df.to_csv(index=False): the header line names every column of the table.
CsvHeader(df) == df.columns

\* pdf_report.py line 223: the assets handed to the summary page are
\* list(sim_df.columns[3:]), every column after the third.
SummaryTickers(df) == SubSeq(df.columns, 4, Len(df.columns))

\* Lines 200-226: the CSV download and the PDF report are made from sim_df as
\* it is after horizon scaling.
Report ==
    /\ pc = "selected"
    /\ csv_columns' = CsvHeader(sim_df)
    /\ pdf_tickers' = SummaryTickers(sim_df)
    /\ pc' = "reported"
    /\ UNCHANGED <<appUpload, freqCall, err, appInputs, simArgs, simLocals, sim_df,
                   optimal_dict, calls, appSelection>>

\* The periods the q-th uploaded file may cover: the first file covers every
\* day, the second starts on any day, the third ends on any day (so that the
\* files overlap on no day, on one, on two or on more).
FileRanges(q) ==
    IF q = 1 THEN { <<1, MaxDate>> }
    ELSE IF q = 2 THEN { r \in DateRanges : r[2] = MaxDate }
    ELSE { r \in DateRanges : r[1] = 1 }

\* The periods k files may cover: one period per file.
FilePeriods(k) == { f \in [1..k -> DateRanges] : \A q \in 1..k : f[q] \in FileRanges(q) }

\* The series the uploaded files were loaded into: the first k tickers of a
\* scenario, each file covering its own period of days.
SeriesList(scn, k, rs) == [q \in 1..k |-> Series(AllTickers[q], scn[q], rs[q][1], rs[q][2])]

SeriesLists ==
    UNION { { SeriesList(scn, k, rs) : rs \in FilePeriods(k) } :
            scn \in Scenarios, k \in 0..Len(AllTickers) }

Init ==
    /\ pc = "main"
    /\ err = ""
    /\ price_series \in SeriesLists
    /\ tickers = [q \in 1..Len(price_series) |-> price_series[q].name]
    /\ prices_df = EmptyFrame
    /\ returns = EmptyFrame
    /\ rf_rate = Zero
    /\ n_portfolios = 0
    /\ random_state = None
    /\ rng = 0
    /\ mean_returns = <<>>
    /\ cov_matrix = <<>>
    /\ results = <<>>
    /\ i = 0
    /\ draws = <<>>
    /\ sim_df = EmptyFrame
    /\ optimal_dict = [max_sharpe |-> NoRecord, min_vol |-> NoRecord]
    /\ calls = <<>>
    /\ risk_tolerance = ""
    /\ investment_goal = ""
    /\ h = 0
    /\ candidate_df = EmptyFrame
    /\ idx = None
    /\ chosen = NoRecord
    /\ uploaded_files = <<>>
    /\ error_files = <<>>
    /\ csv_columns = <<>>
    /\ pdf_tickers = <<>>
    /\ freq_index = <<>>
    /\ periods_per_year = 0

Next ==
    \/ AlignPrices
    \/ RunSimulation
    \/ SimStart
    \/ SimTrial
    \/ SimFinish
    \/ HorizonScaling
    \/ RiskFilter
    \/ GoalSelect
    \/ Report

Spec == Init /\ [][Next]_vars

\* ------------------------------------ selection on a given result table

\* Rows of a result table over the tickers A, B, C: Return, Volatility,
\* Sharpe and the three weights. The last row is what a trial leaves when its
\* variance is not a number: Return and Volatility NaN, Sharpe 0.0.
SelectRows ==
    { <<Num(100), Num(200), Num(300), One, Zero, Zero>>,
      <<Num(50), Num(100), Num(100), Zero, One, Zero>>,
      <<Num(20), Zero, Zero, Zero, Zero, One>>,
      <<NaN, NaN, Zero, Num(500), Num(500), Zero>> }

\* The result tables of 0..MaxN such rows, labelled 0, 1, ...
SelectTables ==
    UNION { { DataFrame(<<"Return", "Volatility", "Sharpe">> \o AllTickers,
                        [r \in 1..n |-> r - 1], rows) :
                  rows \in [1..n -> SelectRows] } : n \in 0..MaxN }

\* Lines 115-160 of main run on a given result table.
SelectInit ==
    /\ pc = "sim_returned"
    /\ err = ""
    /\ price_series = <<>>
    /\ tickers = AllTickers
    /\ prices_df = EmptyFrame
    /\ returns = EmptyFrame
    /\ rf_rate \in {RfRate(r) : r \in RfInputs}
    /\ n_portfolios = 0
    /\ random_state = None
    /\ rng = 0
    /\ mean_returns = <<>>
    /\ cov_matrix = <<>>
    /\ results = <<>>
    /\ i = 0
    /\ draws = <<>>
    /\ sim_df \in SelectTables
    /\ optimal_dict = [max_sharpe |-> NoRecord, min_vol |-> NoRecord]
    /\ calls = <<>>
    /\ risk_tolerance = ""
    /\ investment_goal = ""
    /\ h = 0
    /\ candidate_df = EmptyFrame
    /\ idx = None
    /\ chosen = NoRecord
    /\ uploaded_files = <<>>
    /\ error_files = <<>>
    /\ csv_columns = <<>>
    /\ pdf_tickers = <<>>
    /\ freq_index = <<>>
    /\ periods_per_year = 0

SelectNext == HorizonScaling \/ RiskFilter \/ GoalSelect \/ Report
SelectSpec == SelectInit /\ [][SelectNext]_vars

\* ------------------------------------------------ utils.py: file loading

\* An uploaded file is its name, the names of its columns, and its rows in
\* the order of the file: the date of each row (a day number, or 0 for a
\* text no date format parses) and its price (-1 for an empty cell). A file
\* name is a sequence of pieces: a stem, possibly a suffix, an extension.
UploadedFile(name, columns, dates, prices) ==
    [name |-> name, columns |-> columns, dates |-> dates, prices |-> prices]

\* str.lower() of a piece of a file name.
Lower(piece) == IF piece = "_Prices" THEN "_prices" ELSE piece

\* Lines 35-39: the extension is split off; a name that ends with _prices in
\* any case loses these 7 characters; what is left is the ticker.
parse_ticker_from_filename(filename) ==
    LET name == IF Len(filename) > 1 /\ filename[Len(filename)] = ".csv"
                THEN SubSeq(filename, 1, Len(filename) - 1)
                ELSE filename
        stem == IF Len(name) > 1 /\ Lower(name[Len(name)]) = "_prices"
                THEN SubSeq(name, 1, Len(name) - 1)
                ELSE name
    IN  stem[1]

\* Line 71: the column names tried for the price, in this order.
PriceCandidates ==
    <<"Price", "Adj Close", "Adj close", "AdjClose", "Close", "close", "Adj Close*",
      "Adj_Close">>

\* Lines 63-100. The result is the series, or the error raised: no price
\* column, no Date column, or no row with a date that parses. Rows whose
\* date does not parse are dropped; the other rows are kept in the order of
\* the file (nothing sorts them), an empty price cell becoming NaN.
load_price_file(file) ==
    LET ticker == parse_ticker_from_filename(file.name)
        found == {c \in 1..Len(PriceCandidates) : PriceCandidates[c] \in file.columns}
        kept == Ascending({m \in 1..Len(file.dates) : file.dates[m] # 0})
    IN  IF found = {} THEN [ok |-> FALSE, error |-> "ValueError"]
        ELSE IF "Date" \notin file.columns THEN [ok |-> FALSE, error |-> "ValueError"]
        ELSE IF kept = <<>> THEN [ok |-> FALSE, error |-> "ValueError"]
        ELSE [ok |-> TRUE,
              series |->
                  [name |-> ticker,
                   index |-> [m \in 1..Len(kept) |-> file.dates[kept[m]]],
                   values |-> [m \in 1..Len(kept) |->
                                  IF file.prices[kept[m]] < 0 THEN NaN
                                  ELSE FromInt(file.prices[kept[m]])]]]

\* app.py lines 76-92: every uploaded file is loaded; the series of the
\* files that load are collected in order, with their names as tickers, and
\* the names of the others are reported. Without files nothing happens.
LoadFiles ==
    /\ pc = "upload"
    /\ IF uploaded_files = <<>>
       THEN /\ pc' = "no_files"
            /\ UNCHANGED <<price_series, tickers, error_files>>
       ELSE LET loaded == [q \in 1..Len(uploaded_files) |-> load_price_file(uploaded_files[q])]
                good == Ascending({q \in 1..Len(loaded) : loaded[q].ok})
                bad == Ascending({q \in 1..Len(loaded) : ~loaded[q].ok})
            IN  /\ price_series' = [m \in 1..Len(good) |-> loaded[good[m]].series]
                /\ tickers' = [m \in 1..Len(good) |-> loaded[good[m]].series.name]
                /\ error_files' = [m \in 1..Len(bad) |-> uploaded_files[bad[m]].name]
                /\ pc' = "main"
    /\ UNCHANGED <<appReport, freqCall, err, uploaded_files, prices_df, simArgs, simLocals,
                   sim_df, optimal_dict, calls, appSelection>>

\* The stems of the uploaded file names.
FileTickers == <<"A", "B", "C", "D", "E", "F", "G", "H", "I", "J", "K", "L", "M">>

\* What the uploaded files of one run are like.
UploadKinds ==
    {"ascending", "descending", "first_descending", "unsorted", "staggered",
     "duplicate", "bad_column", "bad_dates", "missing_cell"}

\* The dates of the rows of the q-th file of a run of the given kind.
FileDates(q, kind) ==
    LET up == [m \in 1..MaxDate |-> m]
        down == [m \in 1..MaxDate |-> MaxDate + 1 - m]
    IN  CASE kind = "descending" -> down
          [] kind = "first_descending" -> IF q = 1 THEN down ELSE up
          [] kind = "unsorted" ->
                 IF q = 1 THEN [m \in 1..MaxDate |-> IF m = 1 THEN 2 ELSE IF m = 2 THEN 1 ELSE m]
                 ELSE up
          [] kind = "staggered" -> [m \in 1..MaxDate |-> q + m - 1]
          [] kind = "bad_dates" -> IF q = 2 THEN [m \in 1..MaxDate |-> 0] ELSE up
          [] OTHER -> up

\* The q-th file of a run of the given kind: named TICKER_prices.csv with the
\* columns Date and Close, but for the second file of a "duplicate" run (the
\* first ticker again, as TICKER.csv) and of a "bad_column" run (no price
\* column), and the first file of a "missing_cell" run (an empty price).
FileOf(q, kind) ==
    LET dates == FileDates(q, kind)
        pattern == CASE q % 4 = 1 -> "zigzag" [] q % 4 = 2 -> "rising"
                     [] q % 4 = 3 -> "falling" [] OTHER -> "flat"
    IN  UploadedFile(
            IF kind = "duplicate" /\ q = 2 THEN <<FileTickers[1], ".csv">>
            ELSE <<FileTickers[q], IF q % 2 = 0 THEN "_Prices" ELSE "_prices", ".csv">>,
            IF kind = "bad_column" /\ q = 2 THEN {"Date", "Open"} ELSE {"Date", "Close"},
            dates,
            [m \in 1..Len(dates) |->
                IF kind = "missing_cell" /\ q = 1 /\ m = 2 THEN -1
                ELSE PatternPrice(pattern, dates[m])])

Uploads == { [q \in 1..k |-> FileOf(q, kind)] : k \in 0..MaxFiles, kind \in UploadKinds }

\* main from the upload on, up to the call of simulate_portfolios.
UploadInit ==
    /\ pc = "upload"
    /\ err = ""
    /\ price_series = <<>>
    /\ tickers = <<>>
    /\ prices_df = EmptyFrame
    /\ returns = EmptyFrame
    /\ rf_rate = Zero
    /\ n_portfolios = 0
    /\ random_state = None
    /\ rng = 0
    /\ mean_returns = <<>>
    /\ cov_matrix = <<>>
    /\ results = <<>>
    /\ i = 0
    /\ draws = <<>>
    /\ sim_df = EmptyFrame
    /\ optimal_dict = [max_sharpe |-> NoRecord, min_vol |-> NoRecord]
    /\ calls = <<>>
    /\ risk_tolerance = ""
    /\ investment_goal = ""
    /\ h = 0
    /\ candidate_df = EmptyFrame
    /\ idx = None
    /\ chosen = NoRecord
    /\ uploaded_files \in Uploads
    /\ error_files = <<>>
    /\ csv_columns = <<>>
    /\ pdf_tickers = <<>>
    /\ freq_index = <<>>
    /\ periods_per_year = 0

UploadNext == LoadFiles \/ AlignPrices \/ RunSimulation
UploadSpec == UploadInit /\ [][UploadNext]_vars

\* -------------------------------- infer_periods_per_year, called directly

\* The first business day on or after day d.
NextBusiness(d) == IF Weekday(d) >= 5 THEN d + (7 - Weekday(d)) ELSE d
\* The m-th business day from day d on.
RECURSIVE BusinessDay(_, _)
BusinessDay(d, m) ==
    IF m = 1 THEN NextBusiness(d) ELSE NextBusiness(BusinessDay(d, m - 1) + 1)
\* The last day of month k and the last business day of month k.
MonthEnd(k) == MonthStart(k) + DaysInMonth[k] - 1
LastBusiness(k) ==
    LET e == MonthEnd(k)
    IN  IF Weekday(e) = 5 THEN e - 1 ELSE IF Weekday(e) = 6 THEN e - 2 ELSE e
\* The second Tuesday of month k.
SecondTuesday(k) == MonthStart(k) + ((8 - Weekday(MonthStart(k))) % 7) + 7

\* The shapes of the indexes considered.
FreqKinds ==
    {"daily", "two_day", "business", "weekly", "two_weekly", "four_weekly", "thirty_day",
     "month_start", "month_end", "business_month_start", "business_month_end",
     "quarter_end", "second_tuesday", "irregular", "descending", "unsorted"}

\* The index of n dates of the given shape that starts on day st, or in month
\* st for the shapes made of months; a date is 0 when its month is after
\* December.
IndexOf(kind, st, n) ==
    LET InYear(k, day(_)) == IF k <= 12 THEN day(k) ELSE 0
    IN  [m \in 1..n |->
            CASE kind = "daily" -> st + m - 1
              [] kind = "two_day" -> st + 2 * (m - 1)
              [] kind = "business" -> BusinessDay(st, m)
              [] kind = "weekly" -> st + 7 * (m - 1)
              [] kind = "two_weekly" -> st + 14 * (m - 1)
              [] kind = "four_weekly" -> st + 28 * (m - 1)
              [] kind = "thirty_day" -> st + 30 * (m - 1)
              [] kind = "month_start" -> InYear(st + m - 1, MonthStart)
              [] kind = "month_end" -> InYear(st + m - 1, MonthEnd)
              [] kind = "business_month_start" ->
                     InYear(st + m - 1, LAMBDA k : NextBusiness(MonthStart(k)))
              [] kind = "business_month_end" -> InYear(st + m - 1, LastBusiness)
              [] kind = "quarter_end" -> InYear(st + 3 * (m - 1), MonthEnd)
              [] kind = "second_tuesday" -> InYear(st + m - 1, SecondTuesday)
              [] kind = "irregular" -> st + m * m
              [] kind = "descending" -> st + n - m
              [] kind = "unsorted" -> st + (IF m = 1 THEN 1 ELSE IF m = 2 THEN 0 ELSE m - 1)]

FreqIndexes ==
    { index \in { IndexOf(kind, st, n) :
                      kind \in FreqKinds, st \in 1..MaxStart, n \in 0..MaxIndexLen } :
          \A m \in 1..Len(index) : index[m] \in 1..DaysInYear }

\* A call of infer_periods_per_year(index).
FreqInit ==
    /\ pc = "freq_call"
    /\ err = ""
    /\ price_series = <<>>
    /\ tickers = <<>>
    /\ prices_df = EmptyFrame
    /\ returns = EmptyFrame
    /\ rf_rate = Zero
    /\ n_portfolios = 0
    /\ random_state = None
    /\ rng = 0
    /\ mean_returns = <<>>
    /\ cov_matrix = <<>>
    /\ results = <<>>
    /\ i = 0
    /\ draws = <<>>
    /\ sim_df = EmptyFrame
    /\ optimal_dict = [max_sharpe |-> NoRecord, min_vol |-> NoRecord]
    /\ calls = <<>>
    /\ risk_tolerance = ""
    /\ investment_goal = ""
    /\ h = 0
    /\ candidate_df = EmptyFrame
    /\ idx = None
    /\ chosen = NoRecord
    /\ uploaded_files = <<>>
    /\ error_files = <<>>
    /\ csv_columns = <<>>
    /\ pdf_tickers = <<>>
    /\ freq_index \in FreqIndexes
    /\ periods_per_year = 0

InferPeriods ==
    /\ pc = "freq_call"
    /\ periods_per_year' = infer_periods_per_year(freq_index)
    /\ pc' = "freq_returned"
    /\ UNCHANGED <<appUpload, appReport, freq_index, err, appInputs, simArgs, simLocals,
                   sim_df, optimal_dict, calls, appSelection>>

FreqSpec == FreqInit /\ [][InferPeriods]_vars

\* ------------------------------------------------------------ properties

Returned == pc = "sim_returned"
Scaled == pc \in {"scaled", "filtered", "selected", "select_raised"}
HasTable == Returned \/ Scaled

Cell(df, r, c) == df.data[r][ColPos(df, c)]

\* A point of the simplex: every component a number >= 0, the sum exactly 1.
OnSimplex(w) ==
    /\ \A j \in 1..Len(w) : IsNum(w[j]) /\ w[j].v >= 0
    /\ FSum(w) = One

\* The first n weight vectors of the stream that starts in state s.
RECURSIVE StreamDraws(_, _, _)
StreamDraws(s, k, n) ==
    IF n = 0 THEN <<>>
    ELSE LET d == dirichlet(s, k) IN <<d.weights>> \o StreamDraws(d.state, k, n - 1)

\* C1: with an integer seed, a second call of simulate_portfolios with the
\* same returns, risk-free rate, n and seed ends as the first one did: it
\* returns the same table (same rows, same order) and the same max-Sharpe and
\* min-volatility portfolios, having consumed the stream once per trial.
C1_SeededCallsAgree ==
    (calls # <<>> /\ random_state # None /\ pc \in {"sim_returned", "sim_raised"}) =>
        /\ pc = "sim_returned"
        /\ sim_df = calls[1].sim_df
        /\ optimal_dict = calls[1].optimal_dict
        /\ Len(draws) = n_portfolios
        /\ rng = calls[1].rng

\* Two seeded calls have returned a table of MaxN rows that are not all equal.
C1_Witness ==
    /\ calls # <<>>
    /\ random_state # None
    /\ Returned
    /\ n_portfolios = MaxN
    /\ \E r \in 1..NRows(sim_df) : sim_df.data[r] # sim_df.data[1]

\* C2: the returned table has exactly n rows, labelled 0..n-1, and row r holds
\* the return, volatility, Sharpe and weights of the r-th weight vector drawn
\* from the stream; with a seed, the r-th vector drawn is the r-th vector of
\* the seed's stream.
C2_OneRowPerTrial ==
    Returned =>
        /\ NRows(sim_df) = n_portfolios
        /\ Len(sim_df.data) = n_portfolios
        /\ Len(draws) = n_portfolios
        /\ \A r \in 1..n_portfolios :
              /\ sim_df.index[r] = r - 1
              /\ sim_df.data[r] = TrialRow(draws[r], mean_returns, cov_matrix, rf_rate)
        /\ random_state # None =>
              draws = StreamDraws(default_rng(random_state, 0), NCols(returns), n_portfolios)

\* A table of MaxN rows has been returned whose rows are pairwise different.
C2_Witness ==
    /\ Returned
    /\ n_portfolios = MaxN
    /\ \A r, q \in 1..NRows(sim_df) : r # q => sim_df.data[r] # sim_df.data[q]

\* C3: every weight vector of the result table, before and after horizon
\* scaling and selection, has components >= 0 that sum to 1 and is the vector
\* drawn for its trial; the recommended portfolio's weights are such a vector
\* and are the weights of one row of the table.
C3_WeightsOnSimplex ==
    /\ HasTable =>
          \A r \in 1..NRows(sim_df) :
              /\ OnSimplex(extract_portfolio(sim_df, r, returns.columns))
              /\ extract_portfolio(sim_df, r, returns.columns) = draws[r]
    /\ pc = "selected" =>
          /\ OnSimplex(chosen.weights)
          /\ Len(chosen.weights) = Len(tickers)
          /\ \E r \in 1..NRows(sim_df) :
                chosen.weights = extract_portfolio(sim_df, r, tickers)

\* A portfolio spread over at least two assets has been recommended, at a
\* horizon of more than one year.
C3_Witness ==
    /\ pc = "selected"
    /\ h > 1
    /\ Cardinality({j \in 1..Len(chosen.weights) : chosen.weights[j].v > 0}) >= 2

\* C4: in every row a trial has filled, the Sharpe value is 0.0 when the
\* volatility is not greater than 0 (0 or NaN) and (return - rf) / volatility
\* otherwise; it is never infinite, and no trial raises.
C4_SharpeGuard ==
    /\ \A r \in 1..Len(results) :
          r <= i =>
              LET ret == results[r][1]
                  vol == results[r][2]
                  sharpe == results[r][3]
              IN  /\ FGt(vol, Zero) => sharpe = FDiv(FSub(ret, rf_rate), vol)
                  /\ ~FGt(vol, Zero) => sharpe = Zero
                  /\ IsNum(sharpe)
    /\ pc = "sim_loop" => err = ""

\* A returned table holds a row of volatility 0 whose return is not the
\* risk-free rate, and a row of positive volatility.
C4_Witness ==
    /\ Returned
    /\ \E r \in 1..NRows(sim_df) :
          /\ Cell(sim_df, r, "Volatility") = Zero
          /\ Cell(sim_df, r, "Return") # rf_rate
    /\ \E r \in 1..NRows(sim_df) : FGt(Cell(sim_df, r, "Volatility"), Zero)

\* C5: in the horizon-scaled table, Sharpe_h is 0.0 when Volatility_h is not
\* greater than 0, and (Return_h - rf * h) / Volatility_h otherwise; it is
\* never infinite or undefined.
C5_HorizonSharpeGuard ==
    Scaled =>
        \A r \in 1..NRows(sim_df) :
            /\ Cell(sim_df, r, "Sharpe_h") =
                   sharpe_h_guarded(Cell(sim_df, r, "Return_h"),
                                    Cell(sim_df, r, "Volatility_h"), rf_rate, h)
            /\ IsNum(Cell(sim_df, r, "Sharpe_h"))

\* C6: at h = 1 horizon scaling changes nothing: Return_h = Return,
\* Volatility_h = Volatility and Sharpe_h = Sharpe in every row.
C6_HorizonOneIdentity ==
    (Scaled /\ h = 1) =>
        \A r \in 1..NRows(sim_df) :
            /\ Cell(sim_df, r, "Return_h") = Cell(sim_df, r, "Return")
            /\ Cell(sim_df, r, "Volatility_h") = Cell(sim_df, r, "Volatility")
            /\ Cell(sim_df, r, "Sharpe_h") = Cell(sim_df, r, "Sharpe")

\* C7: a call with n < 1 or fewer than 2 assets fails with
\* InvalidParameterError before any sampling, and returns no table.
C7_ParametersValidated ==
    (pc # "sim_call" /\ (n_portfolios < 1 \/ NCols(returns) < 2)) =>
        /\ pc = "sim_raised"
        /\ err = "InvalidParameterError"
        /\ draws = <<>>

\* C8: compute_returns fails with InsufficientDataError on a price matrix of
\* fewer than 2 rows, so simulate_portfolios is never called with a return
\* matrix of no rows.
C8_NoEmptyReturns ==
    /\ (pc \in {"sim_call", "sim_loop", "sim_raised", "sim_returned"} \/ Scaled) =>
          /\ NRows(prices_df) >= 2
          /\ NRows(returns) >= 1
    /\ (pc \notin {"main", "no_files", "warned", "no_overlap", "ready"}
            /\ NRows(prices_df) < 2) => err = "InsufficientDataError"

\* The k-th smallest of the values that are not NaN (k from 1), by counting.
OrderStat(vals, k) ==
    LET ok == {m \in 1..Len(vals) : ~IsNaN(vals[m])}
        m == CHOOSE x \in ok :
                 /\ Cardinality({y \in ok : FLt(vals[y], vals[x])}) < k
                 /\ k <= Cardinality({y \in ok : FLe(vals[y], vals[x])})
    IN  vals[m]

\* The 25th percentile by linear interpolation between order statistics: with
\* m values it lies (m-1)/4 of the way from the smallest to the largest.
Percentile25(vals) ==
    LET m == Cardinality({q \in 1..Len(vals) : ~IsNaN(vals[q])})
        below == (m - 1) \div 4
        quarters == (m - 1) % 4
    IN  IF m = 0 THEN NaN
        ELSE IF quarters = 0 THEN OrderStat(vals, below + 1)
        ELSE FAdd(OrderStat(vals, below + 1),
                  FMul(FSub(OrderStat(vals, below + 2), OrderStat(vals, below + 1)),
                       Num((quarters * FScale) \div 4)))

\* The label of the row a goal selects among the candidates of a tier, <<>>
\* when there is none.
Selection(df, tier, goal) ==
    LET cand == Candidates(df, tier)
        pos == IF NRows(cand) = 0 THEN 0 ELSE GoalPos(cand, goal)
    IN  IF pos = 0 THEN None ELSE Some(cand.index[pos])

\* C9: for tier Low the candidates are exactly the rows whose Volatility_h is
\* <= the 25th percentile (linear interpolation) of Volatility_h over all rows,
\* in table order; for Moderate and High they are all rows, and every goal
\* selects the same row under Moderate as under High.
C9_RiskTierCandidates ==
    /\ pc \in {"filtered", "selected", "select_raised"} =>
          LET vol == Column(sim_df, "Volatility_h")
              p25 == Percentile25(vol)
              kept == {r \in 1..NRows(sim_df) : FLe(vol[r], p25)}
          IN  IF risk_tolerance = "Low"
              THEN /\ candidate_df.columns = sim_df.columns
                   /\ NRows(candidate_df) = Cardinality(kept)
                   /\ \A r \in 1..NRows(sim_df) :
                         (r \in kept) <=>
                             \E m \in 1..NRows(candidate_df) :
                                 /\ candidate_df.index[m] = sim_df.index[r]
                                 /\ candidate_df.data[m] = sim_df.data[r]
                   /\ \A m \in 2..NRows(candidate_df) :
                         candidate_df.index[m - 1] < candidate_df.index[m]
              ELSE candidate_df = sim_df
    /\ Scaled =>
          \A goal \in Goals :
              Selection(sim_df, "Moderate", goal) = Selection(sim_df, "High", goal)

\* Tier Low has kept some rows of a table of MaxN rows and dropped others.
C9_Witness ==
    /\ pc = "filtered"
    /\ risk_tolerance = "Low"
    /\ NRows(sim_df) = MaxN
    /\ 0 < NRows(candidate_df)
    /\ NRows(candidate_df) < NRows(sim_df)

\* C10: with goal Capital Preservation and at least one candidate, a row is
\* selected; it is a candidate, no candidate has a smaller Volatility_h, no
\* earlier candidate has the same Volatility_h, and the recommended return,
\* volatility, Sharpe and weights are those of that row.
C10_CapitalPreservation ==
    (pc \in {"selected", "select_raised"} /\ investment_goal = "Capital Preservation"
        /\ NRows(candidate_df) > 0) =>
        /\ pc = "selected"
        /\ idx # None
        /\ HasLabel(candidate_df, idx[1])
        /\ LET sel == RowPos(sim_df, idx[1])
               mine == Cell(sim_df, sel, "Volatility_h")
           IN  /\ \A m \in 1..NRows(candidate_df) :
                     LET other == Cell(candidate_df, m, "Volatility_h")
                     IN  /\ ~FLt(other, mine)
                         /\ (candidate_df.index[m] < idx[1]) => other # mine
               /\ chosen.return = Cell(sim_df, sel, "Return_h")
               /\ chosen.volatility = mine
               /\ chosen.sharpe = Cell(sim_df, sel, "Sharpe_h")
               /\ chosen.weights = extract_portfolio(sim_df, sel, tickers)

\* Capital Preservation has selected a row that is not the first of the table,
\* among candidates of different volatilities.
C10_Witness ==
    /\ pc = "selected"
    /\ investment_goal = "Capital Preservation"
    /\ idx # None
    /\ idx[1] > 0
    /\ \E m \in 1..NRows(candidate_df) :
          FLt(chosen.volatility, Cell(candidate_df, m, "Volatility_h"))

RecordOfRow(df, r, names) ==
    [return |-> Cell(df, r, "Return"),
     volatility |-> Cell(df, r, "Volatility"),
     sharpe |-> Cell(df, r, "Sharpe"),
     weights |-> [j \in 1..Len(names) |-> Cell(df, r, names[j])]]

\* C12: the max-Sharpe reference portfolio is the whole record of the row
\* whose Sharpe no row exceeds and no earlier row equals, and the
\* min-volatility reference portfolio is the whole record of the row whose
\* volatility no row is below and no earlier row equals.
C12_ReferencePortfolios ==
    Returned =>
        /\ \E p \in 1..NRows(sim_df) :
              /\ \A r \in 1..NRows(sim_df) :
                    ~FGt(Cell(sim_df, r, "Sharpe"), Cell(sim_df, p, "Sharpe"))
              /\ \A r \in 1..(p - 1) :
                    FLt(Cell(sim_df, r, "Sharpe"), Cell(sim_df, p, "Sharpe"))
              /\ optimal_dict.max_sharpe = RecordOfRow(sim_df, p, returns.columns)
        /\ \E q \in 1..NRows(sim_df) :
              /\ \A r \in 1..NRows(sim_df) :
                    ~FLt(Cell(sim_df, r, "Volatility"), Cell(sim_df, q, "Volatility"))
              /\ \A r \in 1..(q - 1) :
                    FGt(Cell(sim_df, r, "Volatility"), Cell(sim_df, q, "Volatility"))
              /\ optimal_dict.min_vol = RecordOfRow(sim_df, q, returns.columns)

\* A table has been returned in which two rows of different weights tie for
\* the largest Sharpe, and the smallest volatility is below that of the
\* first row.
C12_Witness ==
    /\ Returned
    /\ \E p, q \in 1..NRows(sim_df) :
          /\ p < q
          /\ sim_df.data[p] # sim_df.data[q]
          /\ Cell(sim_df, p, "Sharpe") = Cell(sim_df, q, "Sharpe")
          /\ \A r \in 1..NRows(sim_df) :
                ~FGt(Cell(sim_df, r, "Sharpe"), Cell(sim_df, p, "Sharpe"))
    /\ FLt(optimal_dict.min_vol.volatility, Cell(sim_df, 1, "Volatility"))

\* C13: after horizon scaling, selection and the report, the result table is
\* still what simulate_portfolios returned: the columns Return, Volatility,
\* Sharpe and one per ticker, with the values the trials filled in; the CSV
\* export is made from that table.
C13_ResultUnchanged ==
    /\ (Scaled \/ pc = "reported") =>
          sim_df = DataFrame(<<"Return", "Volatility", "Sharpe">> \o tickers,
                             [r \in 1..n_portfolios |-> r - 1],
                             results)
    /\ pc = "reported" =>
          csv_columns = <<"Return", "Volatility", "Sharpe">> \o tickers

\* C18: the assets named on the summary page of the PDF report are the
\* uploaded tickers, in their order, and nothing else.
C18_ReportListsTickers ==
    pc = "reported" => pdf_tickers = tickers

\* C14: simulate_portfolios is called only on a price matrix of 3 to 10
\* asset columns with different tickers and at least one row.
C14_TickerCount ==
    pc = "sim_call" =>
        /\ NCols(prices_df) >= MinTickers
        /\ NCols(prices_df) <= MaxTickers
        /\ \A j, k \in 1..NCols(prices_df) :
              j # k => prices_df.columns[j] # prices_df.columns[k]
        /\ NRows(prices_df) >= 1

\* C15: the price matrix compute_returns is given has strictly increasing
\* timestamps and no missing cell, and holds the dates every series has.
C15_SortedComplete ==
    pc = "sim_call" =>
        /\ \A m \in 2..NRows(prices_df) : prices_df.index[m - 1] < prices_df.index[m]
        /\ \A m \in 1..NRows(prices_df) :
              \A j \in 1..NCols(prices_df) : ~IsNaN(prices_df.data[m][j])
        /\ \A d \in 1..(MaxDate + MaxFiles) :
              (\E m \in 1..NRows(prices_df) : prices_df.index[m] = d)
                  <=> \A q \in 1..Len(price_series) : SeriesHas(price_series[q], d)

\* The class the spacing of an index belongs to: 12 for at least 3 ascending
\* dates whose steps are all of 28 to 33 days (from one month to the next),
\* 52 when they are all of 7 days, 252 for every other index.
ExpectedPeriods(index) ==
    LET steps == {index[m] - index[m - 1] : m \in 2..Len(index)}
    IN  IF Len(index) >= 3 /\ steps \subseteq 28..33 THEN 12
        ELSE IF Len(index) >= 3 /\ steps = {7} THEN 52
        ELSE 252

\* C16: infer_periods_per_year returns 252, 52 or 12 according to the
\* spacing of the index: 12 for every monthly index, 52 for a weekly one, 252
\* for a daily, business-daily, other or undeterminable one.
C16_FrequencyClasses ==
    pc = "freq_returned" =>
        /\ periods_per_year \in {252, 52, 12}
        /\ periods_per_year = ExpectedPeriods(freq_index)

\* The table has a row, and Volatility_h is a number in every row.
VolatilityDefined ==
    /\ NRows(sim_df) >= 1
    /\ \A r \in 1..NRows(sim_df) : IsNum(Cell(sim_df, r, "Volatility_h"))

\* Row p has the smallest Volatility_h of the table.
GlobalMinimum(p) ==
    \A r \in 1..NRows(sim_df) :
        FLe(Cell(sim_df, p, "Volatility_h"), Cell(sim_df, r, "Volatility_h"))

\* C17: when the table has a row and every Volatility_h is a number, tier
\* Low keeps at least one row and keeps every row of the smallest
\* Volatility_h; and Capital Preservation then selects, under every tier,
\* the first row of the smallest Volatility_h of the whole table.
C17_LowKeepsMinimum ==
    /\ (pc \in {"filtered", "selected", "select_raised", "reported"}
            /\ VolatilityDefined /\ risk_tolerance = "Low") =>
          /\ NRows(candidate_df) >= 1
          /\ \A p \in 1..NRows(sim_df) :
                GlobalMinimum(p) =>
                    \E m \in 1..NRows(candidate_df) :
                        /\ candidate_df.index[m] = sim_df.index[p]
                        /\ candidate_df.data[m] = sim_df.data[p]
    /\ (pc \in {"selected", "select_raised", "reported"}
            /\ VolatilityDefined /\ investment_goal = "Capital Preservation") =>
          /\ pc # "select_raised"
          /\ \E p \in 1..NRows(sim_df) :
                /\ GlobalMinimum(p)
                /\ \A r \in 1..(p - 1) : ~GlobalMinimum(r)
                /\ idx = Some(sim_df.index[p])
                /\ chosen.volatility = Cell(sim_df, p, "Volatility_h")

\* Under tier Low and goal Capital Preservation a row has been selected from
\* a table of MaxN rows with numbers as volatilities; the tier has dropped
\* some rows, and the selected row is not the first of the table.
C17_Witness ==
    /\ pc = "selected"
    /\ risk_tolerance = "Low"
    /\ investment_goal = "Capital Preservation"
    /\ VolatilityDefined
    /\ NRows(sim_df) = MaxN
    /\ NRows(candidate_df) < NRows(sim_df)
    /\ idx # Some(sim_df.index[1])

====
